---- MODULE Spec2Model ----
(***************************************************************************)
(* A model of mkenv: layered environment-variable readers (TextVar,        *)
(* FileRead, Parsed, OrDefault, Cached), the aggregate execution of a      *)
(* configuration (exec_raw / init_raw, try_init, init) and the report it   *)
(* produces.                                                               *)
(*                                                                         *)
(* Texts are sequences of one-character strings, so that conversions       *)
(* (str::parse::<i32>) are computed character by character.  The process   *)
(* environment and the file system are state that only the outside world   *)
(* changes (SetVar, RemoveVar, WriteFile, RemoveFile).                     *)
(***************************************************************************)
EXTENDS Integers, Sequences, FiniteSets, TLC

VARIABLES
    cfg,      \* the configuration built by define(): an index into Configs
    env,      \* the process environment: variable name -> EnvVal
    fs,       \* the file system: path -> FileVal
    cells,    \* the OnceLock of every Cached field: field -> Cell
    thr,      \* the threads racing on a Cached reader: thread -> position
    last,     \* the most recent operation and what it returned
    prev,     \* what is kept of the library operation before the last one
    first,    \* per field: the outcome of the first read since construction or take
    inner     \* per field: inner reads performed since construction or take

vars == <<cfg, env, fs, cells, thr, last, prev, first, inner>>

----------------------------------------------------------------------------
(* Texts *)

T_empty == << >>
T_foo == <<"f", "o", "o">>
T_bar == <<"b", "a", "r">>
T_foobar == <<"f", "o", "o", "b", "a", "r">>
T_30 == <<"3", "0">>
T_3 == <<"3">>
T_m3 == <<"-", "3">>
T_hello == <<"h", "e", "l", "l", "o">>
T_hi == <<"h", "i">>
T_big == <<"2", "1", "4", "7", "4", "8", "3", "6", "4", "8">>
T_path == <<".", "/", "f">>
T_nopath == <<".", "/", "g">>
T_booga_path == <<"b", "o", "o", "g", "a", ":", ".", "/", "f">>
T_unexpected == <<"i", "m", " ", "n", "o", "t", " ", "e", "x", "p", "e", "c", "t", "e", "d">>

----------------------------------------------------------------------------
(* Values, errors and results *)

StrV(t) == [ty |-> "str", s |-> t, n |-> 0]
IntV(k) == [ty |-> "int", s |-> << >>, n |-> k]
NoVal == [ty |-> "none", s |-> << >>, n |-> 0]

\* ReadVarError::Var(VarError::NotPresent)
NotPresent == [variant |-> "Var", kind |-> "NotPresent", cause |-> "", raw |-> 0, cached |-> FALSE]
\* ReadVarError::Var(VarError::NotUnicode(os_string))
NotUnicode(k) == [variant |-> "Var", kind |-> "NotUnicode", cause |-> "", raw |-> k, cached |-> FALSE]
\* ReadVarError::Other(Box::new(ParseError { source }))
ParseError(source) == [variant |-> "Other", kind |-> "ParseError", cause |-> source, raw |-> 0, cached |-> FALSE]
\* ReadVarError::Other(Box::new(io_error))
IoError(k) == [variant |-> "Other", kind |-> "IoError", cause |-> k, raw |-> 0, cached |-> FALSE]
NoErr == [variant |-> "None", kind |-> "", cause |-> "", raw |-> 0, cached |-> FALSE]

Ok(v) == [ok |-> TRUE, val |-> v, err |-> NoErr]

\* an equality that looks at the variant only
ReadVarErrorEqByVariant(e1, e2) == e1.variant = e2.variant

\* impl PartialEq for ReadVarError; VarError derives PartialEq
ReadVarErrorEq(e1, e2) ==
    CASE e1.variant = "Var" /\ e2.variant = "Var" -> e1.kind = e2.kind /\ e1.raw = e2.raw
      [] e1.variant = "Other" /\ e2.variant = "Other" -> TRUE
      [] OTHER -> FALSE

\* #[derive(PartialEq)] struct CachedError<'a, E>(&'a E)
CachedErrorEq(e1, e2) == ReadVarErrorEq(e1, e2)
Err(e) == [ok |-> FALSE, val |-> NoVal, err |-> e]

\* What one read did: its result and the primitive operations it performed, in order.
Outcome(r, t) == [res |-> r, trace |-> t]

----------------------------------------------------------------------------
(* The environment and the file system, as std::env::var and               *)
(* std::fs::read_to_string see them                                        *)

Unset == [kind |-> "unset", text |-> << >>, raw |-> 0]
\* a variable holding valid Unicode text
Text(t) == [kind |-> "text", text |-> t, raw |-> 0]
\* a variable holding an OsString that is not valid Unicode; k tells two such apart
Raw(k) == [kind |-> "raw", text |-> << >>, raw |-> k]

Absent == [kind |-> "absent", text |-> << >>]
File(t) == [kind |-> "file", text |-> t]
\* a file the process may not read
Denied == [kind |-> "denied", text |-> << >>]
\* a file whose bytes are not valid UTF-8
Binary == [kind |-> "binary", text |-> << >>]

\* a lookup that takes an empty value for a missing one
EnvVarEmptyIsUnset(name, e) ==
    CASE e[name].kind = "unset" \/ e[name] = Text(<< >>) -> Err(NotPresent)
      [] e[name].kind = "raw" -> Err(NotUnicode(e[name].raw))
      [] OTHER -> Ok(StrV(e[name].text))

\* std::env::var(name)
EnvVar(name, e) ==
    CASE e[name].kind = "unset" -> Err(NotPresent)
      [] e[name].kind = "raw" -> Err(NotUnicode(e[name].raw))
      [] OTHER -> Ok(StrV(e[name].text))

\* a read that reports every failure as a missing file
ReadToStringLosesCause(path, f) ==
    IF path \in DOMAIN f /\ f[path].kind = "file" THEN Ok(StrV(f[path].text))
    ELSE Err(IoError("NotFound"))

\* std::fs::read_to_string(path)
ReadToString(path, f) ==
    LET file == IF path \in DOMAIN f THEN f[path] ELSE Absent
    IN CASE file.kind = "absent" -> Err(IoError("NotFound"))
         [] file.kind = "denied" -> Err(IoError("PermissionDenied"))
         [] file.kind = "binary" -> Err(IoError("InvalidData"))
         [] OTHER -> Ok(StrV(file.text))

----------------------------------------------------------------------------
(* <i32 as FromStr>::from_str, digit by digit with checked arithmetic      *)

I32Max == 2147483647
I32Min == (-2147483647) - 1

DigitOf(c) ==
    CASE c = "0" -> 0 [] c = "1" -> 1 [] c = "2" -> 2 [] c = "3" -> 3
      [] c = "4" -> 4 [] c = "5" -> 5 [] c = "6" -> 6 [] c = "7" -> 7
      [] c = "8" -> 8 [] c = "9" -> 9 [] OTHER -> -1

RECURSIVE Accumulate(_, _, _, _)
Accumulate(digits, i, acc, positive) ==
    IF i > Len(digits) THEN [ok |-> TRUE, n |-> acc, cause |-> ""]
    ELSE LET d == DigitOf(digits[i])
         IN IF d < 0 THEN [ok |-> FALSE, n |-> 0, cause |-> "InvalidDigit"]
            ELSE IF positive
                 THEN IF acc > I32Max \div 10 \/ d > I32Max - acc * 10
                      THEN [ok |-> FALSE, n |-> 0, cause |-> "PosOverflow"]
                      ELSE Accumulate(digits, i + 1, acc * 10 + d, positive)
                 ELSE IF acc < -(I32Max \div 10) \/ -d < I32Min - acc * 10
                      THEN [ok |-> FALSE, n |-> 0, cause |-> "NegOverflow"]
                      ELSE Accumulate(digits, i + 1, acc * 10 - d, positive)

ParseI32(t) ==
    IF Len(t) = 0 THEN [ok |-> FALSE, n |-> 0, cause |-> "Empty"]
    ELSE IF t[1] \in {"+", "-"} /\ Len(t) = 1
         THEN [ok |-> FALSE, n |-> 0, cause |-> "InvalidDigit"]
         ELSE IF t[1] = "+" THEN Accumulate(Tail(t), 1, 0, TRUE)
              ELSE IF t[1] = "-" THEN Accumulate(Tail(t), 1, 0, FALSE)
                   ELSE Accumulate(t, 1, 0, TRUE)

\* the conversion function a Parsed layer holds, by name
Converted(r) ==
    IF r.ok THEN [ok |-> TRUE, val |-> IntV(r.n), cause |-> ""]
    ELSE [ok |-> FALSE, val |-> NoVal, cause |-> r.cause]

\* |input| input.split(":").nth(1).ok_or_else(|| "this is bad".into()).map(|s| s.to_owned())
FirstColon(t) ==
    IF \E i \in 1..Len(t) : t[i] = ":"
    THEN CHOOSE i \in 1..Len(t) : t[i] = ":" /\ \A j \in 1..(i - 1) : t[j] # ":"
    ELSE Len(t) + 1

UpToColon(t) == SubSeq(t, 1, FirstColon(t) - 1)

AfterColon(t) ==
    IF FirstColon(t) > Len(t) THEN [ok |-> FALSE, val |-> NoVal, cause |-> "this is bad"]
    ELSE [ok |-> TRUE, val |-> StrV(UpToColon(SubSeq(t, FirstColon(t) + 1, Len(t)))),
          cause |-> ""]

ParseFn(fn, t) == IF fn = "i32" THEN Converted(ParseI32(t)) ELSE AfterColon(t)

----------------------------------------------------------------------------
(* The layers.  Each takes the outcome of the reader it wraps.             *)

\* TextVar::try_get
TextVarGet(name, e) == Outcome(EnvVar(name, e), <<"env::var">>)

\* a layer that opens a file whatever the inner reader returned
FileReadIgnoresInnerError(in, f) ==
    Outcome(ReadToString(in.res.val.s, f), Append(in.trace, "fs::read_to_string"))

\* a layer that hands the path on without opening the file
FileReadGivesPath(in, f) ==
    IF ~in.res.ok THEN in
    ELSE Outcome(in.res, Append(in.trace, "fs::read_to_string"))

\* FileRead::try_get
FileReadGet(in, f) ==
    IF ~in.res.ok THEN in
    ELSE Outcome(ReadToString(in.res.val.s, f), Append(in.trace, "fs::read_to_string"))

\* Parsed::try_get
\* a conversion failure reported as a missing variable
MapParseErrAsAbsent(p) == IF p.ok THEN Ok(p.val) ELSE Err(NotPresent)

\* `.map_err(|source| ReadVarError::Other(Box::new(ParseError { source })))`
MapParseErr(p) == IF p.ok THEN Ok(p.val) ELSE Err(ParseError(p.cause))

ParsedGet(fn, in) ==
    IF ~in.res.ok THEN in
    ELSE Outcome(MapParseErr(ParseFn(fn, in.res.val.s)), Append(in.trace, "parse_fn"))

\* a default that replaces the inner value too
OrDefaultAlways(dflt, in) == Outcome(Ok(dflt), Append(in.trace, "default_fn"))

\* a default that only stands in for a missing variable
OrDefaultOnlyWhenAbsent(dflt, in) ==
    IF in.res.ok \/ in.res.err.kind # "NotPresent" THEN in
    ELSE Outcome(Ok(dflt), Append(in.trace, "default_fn"))

\* a default that does not stand in for an unreadable file
OrDefaultUnlessUnreadable(dflt, in) ==
    IF in.res.ok \/ in.res.err.kind = "IoError" THEN in
    ELSE Outcome(Ok(dflt), Append(in.trace, "default_fn"))

\* OrDefault::try_get
OrDefaultGet(dflt, in) ==
    IF in.res.ok THEN in
    ELSE Outcome(Ok(dflt), Append(in.trace, "default_fn"))

\* the layer constructors of LayerExt
file_read == [kind |-> "file_read", fn |-> "", dflt |-> NoVal]
parsed_from_str_i32 == [kind |-> "parsed", fn |-> "i32", dflt |-> NoVal]
parsed_after_colon == [kind |-> "parsed", fn |-> "after_colon", dflt |-> NoVal]
or_default_val(v) == [kind |-> "or_default", fn |-> "", dflt |-> v]
cached == [kind |-> "cached", fn |-> "", dflt |-> NoVal]

\* one layer's try_get over the outcome of the reader it wraps
LayerGet(l, in, f) ==
    CASE l.kind = "file_read" -> FileReadGet(in, f)
      [] l.kind = "parsed" -> ParsedGet(l.fn, in)
      [] l.kind = "or_default" -> OrDefaultGet(l.dflt, in)

\* layers applied from the outermost one inwards
RECURSIVE TryGetOuterFirst(_, _, _, _, _)
TryGetOuterFirst(name, layers, k, e, f) ==
    IF k = 0 THEN TextVarGet(name, e)
    ELSE LayerGet(layers[1], TryGetOuterFirst(name, Tail(layers), k - 1, e, f), f)

\* try_get of the reader made of TextVar(name) under the first k layers
RECURSIVE TryGet(_, _, _, _, _)
TryGet(name, layers, k, e, f) ==
    IF k = 0 THEN TextVarGet(name, e)
    ELSE LayerGet(layers[k], TryGet(name, layers, k - 1, e, f), f)

----------------------------------------------------------------------------
(* Descriptors, fields and configurations                                  *)

\* Option<T>: None is the empty sequence, Some(x) is <<x>>
None == << >>
Some(x) == <<x>>

\* TextVar::from_var_name, then the builder methods description and default_fmt_val
from_var_name(var) == [var_name |-> var, description |-> None, default_val_fmt |-> None]
description(d, text) == [d EXCEPT !.description = Some(text)]
default_fmt_val(d, text) == [d EXCEPT !.default_val_fmt = Some(text)]

\* one field of make_config!: `name: { var_name: .., layers: [..] }`
Leaf(name, desc, layers) == [kind |-> "leaf", name |-> name, descriptor |-> desc, layers |-> layers]
\* one field of make_config! that embeds another configuration: `name: { Config }`
Nested(name, fields) == [kind |-> "nested", name |-> name, fields |-> fields]

IsCached(leaf) == Len(leaf.layers) > 0 /\ leaf.layers[Len(leaf.layers)].kind = "cached"
UsesFile(leaf) == \E i \in 1..Len(leaf.layers) : leaf.layers[i].kind = "file_read"

\* the leaf fields of a configuration, nested ones spliced in place
RECURSIVE Leaves(_)
Leaves(fields) ==
    IF fields = << >> THEN << >>
    ELSE LET h == Head(fields)
         IN (IF h.kind = "nested" THEN Leaves(h.fields) ELSE <<h>>) \o Leaves(Tail(fields))

Range(seq) == {seq[i] : i \in 1..Len(seq)}

----------------------------------------------------------------------------
(* Cached: a OnceLock<Result<Output, Error>> over the wrapped reader       *)

EmptyCell == [state |-> "uninit", res |-> Ok(NoVal)]
FullCell(r) == [state |-> "init", res |-> r]

\* `.as_ref().map_err(CachedError)`: the stored result seen through a reference
CachedView(r) == IF r.ok THEN r ELSE Err([r.err EXCEPT !.cached = TRUE])

\* a cell that is written and never read back
CachedNeverReused(cell, in) ==
    [out |-> Outcome(CachedView(in.res), in.trace), cell |-> FullCell(in.res)]

\* a cell that keeps values and retries failures
CachedRetryOnError(cell, in) ==
    IF cell.state = "init" /\ cell.res.ok
    THEN [out |-> Outcome(CachedView(cell.res), << >>), cell |-> cell]
    ELSE [out |-> Outcome(CachedView(in.res), in.trace), cell |-> FullCell(in.res)]

\* <&Cached<V> as Layer>::try_read_var: get_or_init(|| self.var.try_read_var())
CachedTryReadVar(cell, in) ==
    IF cell.state = "init"
    THEN [out |-> Outcome(CachedView(cell.res), << >>), cell |-> cell]
    ELSE [out |-> Outcome(CachedView(in.res), in.trace), cell |-> FullCell(in.res)]

\* a take that hands out the stored result and leaves it in the cell
CachedTakeKeeps(cell) ==
    [ret |-> IF cell.state = "init" THEN Some(cell.res) ELSE None, cell |-> cell]

\* Cached::take: OnceLock::take
CachedTake(cell) ==
    [ret |-> IF cell.state = "init" THEN Some(cell.res) ELSE None, cell |-> EmptyCell]

\* a reader without a Cached layer that keeps what it read all the same
UncachedKeeps(cell, in) ==
    IF cell.state = "init" THEN [out |-> Outcome(cell.res, << >>), cell |-> cell]
    ELSE [out |-> in, cell |-> FullCell(in.res)]

\* one read of a field's reader: the outcome and the field's cell afterwards
Uncached(cell, in) == [out |-> in, cell |-> cell]

\* every reader keeps the outcome of its first read
ReadLeafMemo(leaf, cell, e, f) ==
    IF IsCached(leaf)
    THEN CachedTryReadVar(cell,
             TryGet(leaf.descriptor.var_name, leaf.layers, Len(leaf.layers) - 1, e, f))
    ELSE IF cell.state = "init" THEN [out |-> Outcome(cell.res, << >>), cell |-> cell]
    ELSE [out |-> TryGet(leaf.descriptor.var_name, leaf.layers, Len(leaf.layers), e, f),
          cell |-> FullCell(TryGet(leaf.descriptor.var_name, leaf.layers,
                                   Len(leaf.layers), e, f).res)]

ReadLeaf(leaf, cell, e, f) ==
    IF IsCached(leaf)
    THEN CachedTryReadVar(cell,
             TryGet(leaf.descriptor.var_name, leaf.layers, Len(leaf.layers) - 1, e, f))
    ELSE Uncached(cell,
             TryGet(leaf.descriptor.var_name, leaf.layers, Len(leaf.layers), e, f))

----------------------------------------------------------------------------
(* The aggregate execution                                                 *)

\* a layer that describes itself anew, by the variable's name alone
LayerDescriptorFresh(l, d) == from_var_name(d.var_name)

\* get_descriptor of a layer l, d being the descriptor of the reader it wraps:
\* `self.var.get_descriptor()`
LayerDescriptor(l, d) == d

\* get_descriptor of the reader made of the first k layers of a field
RECURSIVE GetDescriptor(_, _)
GetDescriptor(leaf, k) ==
    IF k = 0 THEN leaf.descriptor
    ELSE LayerDescriptor(leaf.layers[k], GetDescriptor(leaf, k - 1))

\* describe_config_val / get_descriptor of a field
describe_config_val(leaf) == GetDescriptor(leaf, Len(leaf.layers))

\* ExecResult { config, error }
ExecResult(leaf, out) ==
    [config |-> describe_config_val(leaf),
     error |-> IF out.res.ok THEN None ELSE Some(out.res.err)]

\* what an execution has done so far: the ExecResults, the cells, and (for the
\* properties) the fields attempted and each attempt's outcome, in order
ExecStart(cs) == [results |-> << >>, cells |-> cs, calls |-> << >>, outs |-> << >>]

\* an execution whose reads leave the cells as they were
ChainKeepsCells(st, leaf, r) ==
    [results |-> Append(st.results, ExecResult(leaf, r.out)),
     cells |-> st.cells,
     calls |-> Append(st.calls, leaf.name),
     outs |-> Append(st.outs, r.out)]

\* @__field_kind_call for a `var_name` field
Chain(st, leaf, r) ==
    [results |-> Append(st.results, ExecResult(leaf, r.out)),
     cells |-> [st.cells EXCEPT ![leaf.name] = r.cell],
     calls |-> Append(st.calls, leaf.name),
     outs |-> Append(st.outs, r.out)]

FieldKindCall(leaf, st, e, f) == Chain(st, leaf, ReadLeaf(leaf, st.cells[leaf.name], e, f))

\* a chain that stops at the first field that failed
RECURSIVE FieldKindCallsUntilError(_, _, _, _)
FieldKindCallsUntilError(fields, st, e, f) ==
    IF fields = << >> \/ (st.outs # << >> /\ ~st.outs[Len(st.outs)].res.ok) THEN st
    ELSE FieldKindCallsUntilError(Tail(fields),
             IF Head(fields).kind = "nested"
             THEN FieldKindCallsUntilError(Head(fields).fields, st, e, f)
             ELSE FieldKindCall(Head(fields), st, e, f),
             e, f)

\* a chain that reads a configuration's own fields before the ones it embeds
RECURSIVE FieldKindCallsNestedLast(_, _, _, _)
RECURSIVE OwnFieldsFirst(_, _, _, _, _)
OwnFieldsFirst(fields, st, e, f, own) ==
    IF fields = << >> THEN st
    ELSE OwnFieldsFirst(Tail(fields),
             CASE Head(fields).kind = "nested" /\ ~own ->
                      FieldKindCallsNestedLast(Head(fields).fields, st, e, f)
               [] Head(fields).kind = "leaf" /\ own -> FieldKindCall(Head(fields), st, e, f)
               [] OTHER -> st,
             e, f, own)

FieldKindCallsNestedLast(fields, st, e, f) ==
    OwnFieldsFirst(fields, OwnFieldsFirst(fields, st, e, f, TRUE), e, f, FALSE)

\* @__field_kind_calls: head.chain(tail), every operand evaluated when the chain is built
RECURSIVE FieldKindCalls(_, _, _, _)
FieldKindCalls(fields, st, e, f) ==
    IF fields = << >> THEN st
    ELSE FieldKindCalls(Tail(fields),
             IF Head(fields).kind = "nested"
             THEN FieldKindCalls(Head(fields).fields, st, e, f)
             ELSE FieldKindCall(Head(fields), st, e, f),
             e, f)

\* ConfigExecutor::exec_raw / ConfigInitializer::init_raw
ExecRaw(fields, cs, e, f) == FieldKindCalls(fields, ExecStart(cs), e, f)

\* a partition that puts each failed result in front of the earlier ones
RECURSIVE FmtExecResultsPrepending(_, _)
FmtExecResultsPrepending(results, acc) ==
    IF results = << >> THEN acc
    ELSE FmtExecResultsPrepending(Tail(results),
             IF Head(results).error # None
             THEN [acc EXCEPT !.incorrect_vars =
                       << [config |-> Head(results).config,
                           error |-> Head(results).error[1]] >> \o @]
             ELSE [acc EXCEPT !.correct_vars = Append(@, Head(results).config)])

\* fmt_exec_results
RECURSIVE FmtExecResults(_, _)
FmtExecResults(results, acc) ==
    IF results = << >> THEN acc
    ELSE FmtExecResults(Tail(results),
             IF Head(results).error # None
             THEN [acc EXCEPT !.incorrect_vars =
                       Append(@, [config |-> Head(results).config,
                                  error |-> Head(results).error[1]])]
             ELSE [acc EXCEPT !.correct_vars = Append(@, Head(results).config)])

fmt_exec_results(results) ==
    FmtExecResults(results, [correct_vars |-> << >>, incorrect_vars |-> << >>])

\* ConfigInitializer::try_init, given the results of init_raw
\* a try_init that looks at the wrong list
TryInitOfCorrect(res) ==
    IF res.correct_vars # << >>
    THEN [ok |-> TRUE, error |-> None]
    ELSE [ok |-> FALSE, error |-> Some(res)]

TryInitOf(res) ==
    IF res.incorrect_vars = << >>
    THEN [ok |-> TRUE, error |-> None]
    ELSE [ok |-> FALSE, error |-> Some(res)]

TryInitResult(results) == TryInitOf(fmt_exec_results(results))

----------------------------------------------------------------------------
(* What is displayed.  A text is the sequence of its lines, one per        *)
(* writeln!; the grave accent, which no TLA+ string can hold, is written   *)
(* as Tick.                                                                *)

Tick == "'"

\* a descriptor that never shows its default label
DescriptorDisplayNoDefault(d) ==
    Tick \o d.var_name \o Tick
        \o (IF d.description # None THEN ": " \o d.description[1] ELSE "")

\* impl Display for VarDescriptor
DescriptorDisplay(d) ==
    Tick \o d.var_name \o Tick
        \o (IF d.description # None THEN ": " \o d.description[1] ELSE "")
        \o (IF d.default_val_fmt # None THEN " (default: " \o d.default_val_fmt[1] \o ")" ELSE "")

\* Display of the error a conversion or std::fs gave
CauseDisplay(cause) ==
    CASE cause = "InvalidDigit" -> "invalid digit found in string"
      [] cause = "Empty" -> "cannot parse integer from empty string"
      [] cause = "PosOverflow" -> "number too large to fit in target type"
      [] cause = "NegOverflow" -> "number too small to fit in target type"
      [] cause = "NotFound" -> "No such file or directory (os error 2)"
      [] cause = "PermissionDenied" -> "Permission denied (os error 13)"
      [] cause = "InvalidData" -> "stream did not contain valid UTF-8"
      [] OTHER -> cause

\* impl Display for ReadVarError, ParseError and CachedError
ErrorDisplay(err) ==
    CASE err.kind = "NotPresent" -> "environment variable not found"
      [] err.kind = "NotUnicode" ->
             "environment variable was not valid unicode: OsString#" \o ToString(err.raw)
      [] err.kind = "ParseError" -> "parse error: " \o CauseDisplay(err.cause)
      [] OTHER -> CauseDisplay(err.cause)

\* a plural for every count but one
PluralUnlessOne(n) == IF n # 1 THEN "s" ELSE ""

\* `if len > 1 { "s" } else { "" }`
Plural(n) == IF n > 1 THEN "s" ELSE ""

CountLine(n, what) == "Got " \o ToString(n) \o " " \o what \o " variable" \o Plural(n)

IncorrectLines(res) ==
    [i \in 1..Len(res.incorrect_vars) |->
        "- " \o Tick \o res.incorrect_vars[i].config.var_name \o Tick \o ": "
             \o ErrorDisplay(res.incorrect_vars[i].error)]

CorrectLines(res) ==
    [i \in 1..Len(res.correct_vars) |-> "- " \o Tick \o res.correct_vars[i].var_name \o Tick]

\* a catalogue that lists the valid fields before the incorrect ones
CatalogueCorrectFirst(res) ==
    [i \in 1..Len(res.correct_vars) |-> "- " \o DescriptorDisplay(res.correct_vars[i])]
        \o [i \in 1..Len(res.incorrect_vars) |->
               "- " \o DescriptorDisplay(res.incorrect_vars[i].config)]

\* `incorrect_vars.iter().map(|v| v.config).chain(correct_vars.iter().copied())`
Catalogue(res) ==
    [i \in 1..Len(res.incorrect_vars) |->
        "- " \o DescriptorDisplay(res.incorrect_vars[i].config)]
        \o [i \in 1..Len(res.correct_vars) |-> "- " \o DescriptorDisplay(res.correct_vars[i])]

\* impl Display for FmtExecResults
FmtExecResultsDisplay(res) ==
    <<CountLine(Len(res.incorrect_vars), "incorrect")>>
        \o IncorrectLines(res)
        \o <<CountLine(Len(res.correct_vars), "valid")>>
        \o CorrectLines(res)
        \o <<"Full required environment description:">>
        \o Catalogue(res)

\* impl Display for ConfigInitError
ConfigInitErrorDisplay(res) ==
    <<"Error during configuration initialization:">> \o FmtExecResultsDisplay(res)

----------------------------------------------------------------------------
(* The configurations exercised, and what the outside world may put in the *)
(* environment and the file system while each is exercised                 *)

VarNames == {"VAR_A", "VAR_B", "VAR_C", "VAR_D", "USER", "PWD", "MY_URL"}
Paths == {T_path}

\* fields: the declaration; vals: per variable, the values the outside world gives
\* it; files: the states the outside world puts the file at T_path in
Config(fields, vals, files) == [fields |-> fields, vals |-> vals, files |-> files]

Always(S) == [n \in VarNames |-> S]

OneField(layers, vals, files) ==
    Config(<<Leaf("var_a", from_var_name("VAR_A"), layers)>>, Always(vals), files)

TextVals == {Text(T_foo), Text(T_bar), Text(T_empty), Raw(1)}
NumVals == {Text(T_30), Text(T_foobar), Text(T_m3), Text(T_big), Text(T_empty), Raw(1)}
PathVals == {Text(T_path), Text(T_nopath), Raw(1)}
FileVals == {File(T_hello), File(T_3), File(T_foobar), Denied, Binary}

\* single readers, as the layers' own tests build them
ReaderConfigs ==
    << OneField(<< >>, TextVals, {}),
       OneField(<<cached>>, TextVals, {}),
       OneField(<<parsed_from_str_i32>>, NumVals, {}),
       OneField(<<parsed_from_str_i32, cached>>, {Text(T_3), Text(T_foobar)}, {}),
       OneField(<<or_default_val(StrV(T_hello))>>, {Text(T_hi), Text(T_empty), Raw(1)}, {}),
       OneField(<<parsed_from_str_i32, or_default_val(IntV(0))>>, NumVals, {}),
       OneField(<<parsed_from_str_i32, or_default_val(IntV(0)), cached>>,
                {Text(T_3), Text(T_foobar)}, {}),
       OneField(<<file_read>>, PathVals, FileVals),
       OneField(<<file_read, parsed_from_str_i32>>, {Text(T_path)}, FileVals),
       OneField(<<file_read, parsed_from_str_i32, or_default_val(IntV(0))>>,
                {Text(T_path)}, FileVals),
       OneField(<<parsed_after_colon, file_read>>,
                {Text(T_booga_path), Text(T_unexpected)}, {File(T_hello)}) >>

\* whole configurations, as make_config! declares them
ExecConfigs ==
    << \* Bar { foo: { Foo }, var_c, var_d } with Foo { var_a, var_b }
       Config(<< Nested("foo", << Leaf("foo.var_a", from_var_name("VAR_A"), << >>),
                                  Leaf("foo.var_b", from_var_name("VAR_B"), << >>) >>),
                 Leaf("var_c", from_var_name("VAR_C"), << >>),
                 Leaf("var_d", from_var_name("VAR_D"), << >>) >>,
              Always({Text(T_3)}), {}),
       \* TestConfig { var_a, var_b, var_c: [parsed_from_str<i32>(), or_default(), cached()] }
       Config(<< Leaf("var_a", from_var_name("VAR_A"), << >>),
                 Leaf("var_b", from_var_name("VAR_B"), <<parsed_from_str_i32>>),
                 Leaf("var_c", description(from_var_name("VAR_C"), "hello"),
                      <<parsed_from_str_i32, or_default_val(IntV(0)), cached>>) >>,
              [Always({Text(T_3), Text(T_foobar)}) EXCEPT !["VAR_A"] = {Text(T_foo)}], {}),
       \* AppConfig { user, pwd }
       Config(<< Leaf("user", from_var_name("USER"), << >>),
                 Leaf("pwd", from_var_name("PWD"), << >>) >>,
              Always({Text(T_foo), Raw(1)}), {}),
       \* a nested configuration in the middle, a Cached field that can fail, files
       Config(<< Leaf("var_a", from_var_name("VAR_A"), <<parsed_from_str_i32, cached>>),
                 Nested("mid", << Leaf("mid.var_b", from_var_name("VAR_B"), <<file_read>>) >>),
                 Leaf("var_c", default_fmt_val(from_var_name("VAR_C"), "hello"),
                      <<file_read, or_default_val(StrV(T_hello))>>) >>,
              [Always({Text(T_path)}) EXCEPT !["VAR_A"] = {Text(T_3), Text(T_foobar)}],
              {File(T_hi), Denied}),
       \* MyConfig { url }, and its field given a default label
       Config(<< Leaf("url", description(from_var_name("MY_URL"), "Some URL"), << >>) >>,
              Always({Text(T_foo)}), {}),
       Config(<< Leaf("url", default_fmt_val(description(from_var_name("MY_URL"), "Some URL"),
                                             "hi"), << >>) >>,
              Always({Text(T_foo)}), {}) >>

Configs == ReaderConfigs \o ExecConfigs

Fields == Leaves(Configs[cfg].fields)
FieldNames == {Fields[i].name : i \in 1..Len(Fields)}
FieldOf(name) == CHOOSE l \in Range(Fields) : l.name = name
VarsOf == {Fields[i].descriptor.var_name : i \in 1..Len(Fields)}
AllFieldNames ==
    UNION {{l.name : l \in Range(Leaves(Configs[c].fields))} : c \in 1..Len(Configs)}

----------------------------------------------------------------------------
(* The state machine                                                       *)

\* the inner reads a Cached field is followed through since its construction or take
MaxInner == 2
\* the threads that race on one Cached reader
NThreads == 2
Threads == 1..NThreads

NoOut == Outcome(Ok(NoVal), << >>)

LibOps == {"try_read_var", "take", "init_raw", "try_init", "init", "collect"}
ExecOps == {"init_raw", "try_init", "init"}

\* the results of an execution as fmt_exec_results displays them
ReportOf(op, results) ==
    IF op \in ExecOps THEN FmtExecResultsDisplay(fmt_exec_results(results)) ELSE << >>

\* the errors a cached error is compared with, each wrapped in a CachedError
SomeErrors ==
    << NotPresent, NotUnicode(1), NotUnicode(2),
       ParseError("InvalidDigit"), ParseError("Empty"), IoError("NotFound") >>

\* `err == CachedError(&e)` for each e of SomeErrors, err being the error of a
\* read through a Cached layer
EqualsOf(out) ==
    IF ~out.res.ok /\ out.res.err.cached
    THEN [i \in 1..Len(SomeErrors) |-> CachedErrorEq(out.res.err, SomeErrors[i])]
    ELSE << >>

\* panic!("{e}")
PanicMessage(init, panicked) ==
    IF panicked THEN Some(ConfigInitErrorDisplay(init.error[1])) ELSE None

\* the record of an operation; `changed` tells whether the outside world changed
\* the environment or a file since the operation before
Record(op, arg, out, taken, st, init, panicked) ==
    [op |-> op, arg |-> arg, out |-> out, taken |-> taken,
     results |-> st.results, calls |-> st.calls, outs |-> st.outs,
     ok |-> init.ok, error |-> init.error, panicked |-> panicked,
     report |-> ReportOf(op, st.results), message |-> PanicMessage(init, panicked),
     equals |-> EqualsOf(out),
     changed |-> last.op \notin LibOps]

NoInit == [ok |-> TRUE, error |-> None]
World(op, arg) ==
    [op |-> op, arg |-> arg, out |-> NoOut, taken |-> None,
     results |-> << >>, calls |-> << >>, outs |-> << >>,
     ok |-> TRUE, error |-> None, panicked |-> FALSE,
     report |-> << >>, message |-> None, equals |-> << >>, changed |-> FALSE]

\* what is kept of the operation before the last one
\* (of an init_raw, the iterator it returned as well)
Summary(r) ==
    [op |-> r.op, arg |-> r.arg, res |-> r.out.res, taken |-> r.taken, ok |-> r.ok,
     results |-> IF r.op = "init_raw" THEN r.results ELSE << >>]
Remember == IF last.op \in LibOps THEN Summary(last) ELSE prev

\* the first outcome and the number of inner reads of every Cached field read
RECURSIVE NoteFirst(_, _, _)
NoteFirst(calls, outs, fst) ==
    IF calls = << >> THEN fst
    ELSE NoteFirst(Tail(calls), Tail(outs),
             IF IsCached(FieldOf(Head(calls))) /\ fst[Head(calls)] = None
             THEN [fst EXCEPT ![Head(calls)] = Some(Head(outs).res)]
             ELSE fst)

RECURSIVE NoteInner(_, _, _)
NoteInner(calls, outs, inn) ==
    IF calls = << >> THEN inn
    ELSE NoteInner(Tail(calls), Tail(outs),
             IF IsCached(FieldOf(Head(calls))) /\ Head(outs).trace # << >>
             THEN [inn EXCEPT ![Head(calls)] = @ + 1]
             ELSE inn)

Followed == \A n \in FieldNames : inner[n] < MaxInner

Thread(pc, arg, res, waited) == [pc |-> pc, arg |-> arg, res |-> res, waited |-> waited]
IdleThreads == [t \in Threads |-> Thread("idle", "", Ok(NoVal), FALSE)]

\* a construction that reads every field once, in the environment it finds
InitEager(ids) ==
    /\ cfg \in ids
    /\ env = [n \in VarNames |-> Unset]
    /\ fs = [p \in Paths |-> Absent]
    /\ cells = [n \in AllFieldNames |-> FullCell(Err(NotPresent))]
    /\ thr = IdleThreads
    /\ last = World("define", "")
    /\ prev = Summary(World("define", ""))
    /\ first = [n \in AllFieldNames |-> None]
    /\ inner = [n \in AllFieldNames |-> 0]

\* the configuration as constructed: make_config!'s `define`, the builder
InitWith(ids) ==
    /\ cfg \in ids
    /\ env = [n \in VarNames |-> Unset]
    /\ fs = [p \in Paths |-> Absent]
    /\ cells = [n \in AllFieldNames |-> EmptyCell]
    /\ thr = IdleThreads
    /\ last = World("define", "")
    /\ prev = Summary(World("define", ""))
    /\ first = [n \in AllFieldNames |-> None]
    /\ inner = [n \in AllFieldNames |-> 0]

\* the outside world: std::env::set_var, std::env::remove_var
SetVar(n, v) ==
    /\ env[n] # v
    /\ env' = [env EXCEPT ![n] = v]
    /\ last' = World("set_var", n)
    /\ prev' = Remember
    /\ UNCHANGED <<cfg, fs, cells, thr, first, inner>>

RemoveVar(n) ==
    /\ env[n] # Unset
    /\ env' = [env EXCEPT ![n] = Unset]
    /\ last' = World("remove_var", n)
    /\ prev' = Remember
    /\ UNCHANGED <<cfg, fs, cells, thr, first, inner>>

\* the outside world: std::fs::write, std::fs::remove_file
WriteFile(p, c) ==
    /\ fs[p] # c
    /\ fs' = [fs EXCEPT ![p] = c]
    /\ last' = World("write_file", "")
    /\ prev' = Remember
    /\ UNCHANGED <<cfg, env, cells, thr, first, inner>>

RemoveFile(p) ==
    /\ fs[p] # Absent
    /\ fs' = [fs EXCEPT ![p] = Absent]
    /\ last' = World("remove_file", "")
    /\ prev' = Remember
    /\ UNCHANGED <<cfg, env, cells, thr, first, inner>>

\* a read that removes the variable it has read
ReadDoneClearsVar(n, r) ==
    /\ cells' = [cells EXCEPT ![n] = r.cell]
    /\ last' = Record("try_read_var", n, r.out, None, ExecStart(cells), NoInit, FALSE)
    /\ first' = NoteFirst(<<n>>, <<r.out>>, first)
    /\ inner' = NoteInner(<<n>>, <<r.out>>, inner)
    /\ prev' = Remember
    /\ env' = [env EXCEPT ![FieldOf(n).descriptor.var_name] = Unset]
    /\ UNCHANGED <<cfg, fs, thr>>

\* the state after a read of field n that returned r
ReadDone(n, r) ==
    /\ cells' = [cells EXCEPT ![n] = r.cell]
    /\ last' = Record("try_read_var", n, r.out, None, ExecStart(cells), NoInit, FALSE)
    /\ first' = NoteFirst(<<n>>, <<r.out>>, first)
    /\ inner' = NoteInner(<<n>>, <<r.out>>, inner)
    /\ prev' = Remember
    /\ UNCHANGED <<cfg, env, fs, thr>>

\* config.<field>.try_read_var() (try_get)
TryReadVar(n) ==
    /\ Followed
    /\ ReadDone(n, ReadLeaf(FieldOf(n), cells[n], env, fs))

TakeDone(n, r) ==
    /\ cells' = [cells EXCEPT ![n] = r.cell]
    /\ last' = Record("take", n, NoOut, r.ret, ExecStart(cells), NoInit, FALSE)
    /\ first' = [first EXCEPT ![n] = None]
    /\ inner' = [inner EXCEPT ![n] = 0]
    /\ prev' = Remember
    /\ UNCHANGED <<cfg, env, fs, thr>>

\* config.<field>.take(), on a Cached field
Take(n) ==
    /\ IsCached(FieldOf(n))
    /\ TakeDone(n, CachedTake(cells[n]))

\* the state after an aggregate execution st
ExecDone(op, st, r, panicked) ==
    /\ cells' = st.cells
    /\ last' = Record(op, "", NoOut, None, st, r, panicked)
    /\ first' = NoteFirst(st.calls, st.outs, first)
    /\ inner' = NoteInner(st.calls, st.outs, inner)
    /\ prev' = Remember
    /\ UNCHANGED <<cfg, env, fs, thr>>

\* config.init_raw() (exec_raw)
InitRaw ==
    /\ Followed
    /\ ExecDone("init_raw", ExecRaw(Configs[cfg].fields, cells, env, fs), NoInit, FALSE)

\* an iterator that reads each field when its entry is asked for
CollectedLazily(held, fields, cs, e, f) == ExecRaw(fields, cs, e, f)

\* the iterator init_raw returned, consumed: iter::once(ExecResult { .. })
\* chained, every entry built when the chain was
Collected(held, fields, cs, e, f) ==
    [results |-> held, cells |-> cs, calls |-> << >>, outs |-> << >>]

\* `for result in results`, `.collect()`: the results of the last init_raw,
\* consumed once, the outside world having acted in between or not
Collect ==
    /\ Remember.op = "init_raw"
    /\ ExecDone("collect", Collected(Remember.results, Configs[cfg].fields, cells, env, fs),
                NoInit, FALSE)

\* config.try_init()
TryInitDone(st) == ExecDone("try_init", st, TryInitResult(st.results), FALSE)

TryInit ==
    /\ Followed
    /\ TryInitDone(ExecRaw(Configs[cfg].fields, cells, env, fs))

\* an init that gives up only when no field could be read
InitPanicsWhenAllFail(r) == ~r.ok /\ r.error[1].correct_vars = << >>

\* config.init(): try_init().unwrap_or_else(|e| panic!("{e}"))
InitPanics(r) == ~r.ok

InitOf(st, r) == ExecDone("init", st, r, InitPanics(r))

InitDone(st) == InitOf(st, TryInitResult(st.results))

ConfigInit ==
    /\ Followed
    /\ InitDone(ExecRaw(Configs[cfg].fields, cells, env, fs))

Next ==
    \/ \E n \in VarsOf : \E v \in Configs[cfg].vals[n] : SetVar(n, v)
    \/ \E n \in VarsOf : RemoveVar(n)
    \/ \E p \in Paths : \E c \in Configs[cfg].files : WriteFile(p, c)
    \/ \E p \in Paths : Configs[cfg].files # {} /\ RemoveFile(p)
    \/ \E n \in FieldNames : TryReadVar(n)
    \/ \E n \in FieldNames : Take(n)
    \/ InitRaw
    \/ Collect
    \/ TryInit
    \/ ConfigInit

\* single readers
Init == InitWith(1..Len(ReaderConfigs))
Spec == Init /\ [][Next]_vars

\* whole configurations
InitExec == InitWith((Len(ReaderConfigs) + 1)..Len(Configs))
SpecExec == InitExec /\ [][Next]_vars

----------------------------------------------------------------------------
(* Threads sharing one `&Cached` reader: the steps of OnceLock::get_or_init *)

\* the cell while one thread runs the initialising closure
RunningCell == [state |-> "running", res |-> Ok(NoVal)]

\* a cell whose emptiness is tested without excluding other initialisers
OnceUnguarded(cell) == IF cell.state = "init" THEN "done" ELSE "running"

\* what get_or_init does with its caller: return the stored result, block until
\* the running initialiser completes, or make the caller the initialiser
OnceState(cell) ==
    CASE cell.state = "init" -> "done"
      [] cell.state = "running" -> "waiting"
      [] OTHER -> "running"

Entered(t, n, d) ==
    /\ thr' = [thr EXCEPT ![t] =
                  Thread(d, n, IF d = "done" THEN CachedView(cells[n].res) ELSE Ok(NoVal),
                         d = "waiting")]
    /\ cells' = IF d = "running" THEN [cells EXCEPT ![n] = RunningCell] ELSE cells
    /\ UNCHANGED <<cfg, env, fs, last, prev, first, inner>>

\* thread t calls try_read_var on the shared reader
Enter(t, n) ==
    /\ thr[t].pc = "idle"
    /\ IsCached(FieldOf(n))
    /\ Entered(t, n, OnceState(cells[n]))

\* the closure of get_or_init: self.var.try_read_var()
InnerRead(t) ==
    /\ thr[t].pc = "running"
    /\ thr' = [thr EXCEPT ![t] =
                  Thread("storing", thr[t].arg,
                         TryGet(FieldOf(thr[t].arg).descriptor.var_name,
                                FieldOf(thr[t].arg).layers,
                                Len(FieldOf(thr[t].arg).layers) - 1, env, fs).res,
                         FALSE)]
    /\ inner' = [inner EXCEPT ![thr[t].arg] = @ + 1]
    /\ UNCHANGED <<cfg, env, fs, cells, last, prev, first>>

\* the initialiser publishes its result and returns it
Store(t) ==
    /\ thr[t].pc = "storing"
    /\ cells' = [cells EXCEPT ![thr[t].arg] = FullCell(thr[t].res)]
    /\ thr' = [thr EXCEPT ![t] = Thread("done", thr[t].arg, CachedView(thr[t].res), FALSE)]
    /\ first' = IF first[thr[t].arg] = None
                THEN [first EXCEPT ![thr[t].arg] = Some(CachedView(thr[t].res))]
                ELSE first
    /\ UNCHANGED <<cfg, env, fs, last, prev, inner>>

\* a blocked caller resumes once the cell is initialised
Wake(t) ==
    /\ thr[t].pc = "waiting"
    /\ cells[thr[t].arg].state = "init"
    /\ thr' = [thr EXCEPT ![t] =
                  Thread("done", thr[t].arg, CachedView(cells[thr[t].arg].res), TRUE)]
    /\ UNCHANGED <<cfg, env, fs, cells, last, prev, first, inner>>

\* the caller has its result and may call again later
Again(t) ==
    /\ thr[t].pc = "done"
    /\ thr' = [thr EXCEPT ![t] = Thread("idle", "", Ok(NoVal), FALSE)]
    /\ UNCHANGED <<cfg, env, fs, cells, last, prev, first, inner>>

NextRace ==
    \/ \E n \in VarsOf : \E v \in Configs[cfg].vals[n] : SetVar(n, v)
    \/ \E n \in VarsOf : RemoveVar(n)
    \/ \E t \in Threads : \E n \in FieldNames : Enter(t, n)
    \/ \E t \in Threads : InnerRead(t)
    \/ \E t \in Threads : Store(t)
    \/ \E t \in Threads : Wake(t)
    \/ \E t \in Threads : Again(t)

\* the single readers with a Cached layer
CachedConfigs == {i \in 1..Len(ReaderConfigs) : IsCached(Leaves(Configs[i].fields)[1])}
InitRace == InitWith(CachedConfigs)
SpecRace == InitRace /\ [][NextRace]_vars

----------------------------------------------------------------------------
(* Properties                                                              *)

Count(seq, x) == Cardinality({i \in 1..Len(seq) : seq[i] = x})
Failed(outs) == {i \in 1..Len(outs) : ~outs[i].res.ok}
Succeeded(outs) == {i \in 1..Len(outs) : outs[i].res.ok}

\* C1: one aggregate execution of a configuration with N leaf fields attempts
\* every leaf field's reader exactly once and yields exactly N results,
\* whatever the outcomes of the earlier fields.
C1_EveryFieldAttemptedOnce ==
    last.op \in ExecOps =>
        /\ \A n \in FieldNames : Count(last.calls, n) = 1
        /\ Len(last.calls) = Len(Fields)
        /\ Len(last.results) = Len(Fields)

\* an execution in which a field failed and a later field was still read, with success
C1_Witness ==
    /\ last.op \in ExecOps
    /\ Len(last.results) = Len(Fields)
    /\ \E i, j \in 1..Len(last.outs) :
           i < j /\ ~last.outs[i].res.ok /\ last.outs[j].res.ok

\* C2: try_init returns Ok exactly when every leaf field's read succeeded in
\* that execution; otherwise it returns an error wrapping a report whose
\* incorrect entries are exactly the fields whose read failed and whose correct
\* entries are exactly the fields whose read succeeded.
C2_TryInitOkIffAllSucceeded ==
    last.op = "try_init" =>
        /\ last.ok <=> Failed(last.outs) = {}
        /\ last.ok => last.error = None
        /\ ~last.ok =>
            /\ last.error # None
            /\ Len(last.error[1].incorrect_vars) = Cardinality(Failed(last.outs))
            /\ Len(last.error[1].correct_vars) = Cardinality(Succeeded(last.outs))
            /\ {v.config : v \in Range(last.error[1].incorrect_vars)}
                   = {Fields[i].descriptor : i \in Failed(last.outs)}
            /\ Range(last.error[1].correct_vars)
                   = {Fields[i].descriptor : i \in Succeeded(last.outs)}

\* a try_init that failed with some fields read and some not
C2_Witness ==
    /\ last.op = "try_init"
    /\ ~last.ok
    /\ Failed(last.outs) # {}
    /\ Succeeded(last.outs) # {}
    /\ Len(last.error[1].incorrect_vars) = Cardinality(Failed(last.outs))

\* the field the last operation was about, its variable and its layers
LastLeaf == FieldOf(last.arg)
LastVar == LastLeaf.descriptor.var_name
LastLayers == LastLeaf.layers
LastTop == LastLayers[Len(LastLayers)]
ReadOf(kind) ==
    /\ last.op = "try_read_var"
    /\ Len(LastLayers) > 0
    /\ LastTop.kind = kind
\* the outcome of the reader under the top layer, in the current environment
InnerNow == TryGet(LastVar, LastLayers, Len(LastLayers) - 1, env, fs)
InTrace(out, step) == \E i \in 1..Len(out.trace) : out.trace[i] = step

\* C3: for a Cached reader whose first read succeeds with value v, every later
\* read of the same reader returns v, whatever the environment has become.
C3_CachedValueKept ==
    (ReadOf("cached") /\ first[last.arg] # None /\ first[last.arg][1].ok)
        => last.out.res = first[last.arg][1]

\* set to "foo", read, changed to "bar", read again: still "foo", without a lookup
C3_Witness ==
    /\ ReadOf("cached")
    /\ prev.op = "try_read_var" /\ prev.res = Ok(StrV(T_foo))
    /\ env[LastVar] = Text(T_bar)
    /\ last.out = Outcome(Ok(StrV(T_foo)), << >>)

\* C4: if the first read of a Cached reader fails, every later read of that
\* reader reports that same cached failure, even after the variable has been
\* set to a valid value; the inner read is never retried.
C4_CachedFailureKept ==
    (ReadOf("cached") /\ first[last.arg] # None /\ ~first[last.arg][1].ok)
        => /\ last.out.res = first[last.arg][1]
           /\ last.out.res.err.cached
           /\ inner[last.arg] = 1

\* "foobar" rejected by the Parsed layer, then "3" set, then read again
C4_Witness ==
    /\ ReadOf("cached")
    /\ LastLayers[1].kind = "parsed"
    /\ prev.op = "try_read_var" /\ ~prev.res.ok
    /\ env[LastVar] = Text(T_3)
    /\ last.changed
    /\ last.out.res.err.kind = "ParseError"
    /\ last.out.trace = << >>

\* C5: when several threads read the same not-yet-initialised Cached reader
\* concurrently, the inner reader is invoked exactly once and every caller, the
\* racing ones and all later ones, returns the same stored result, even if the
\* environment changes while they race.
C5_InitializedOnce ==
    \A n \in FieldNames :
        /\ inner[n] <= 1
        /\ \A t \in Threads :
               (thr[t].pc = "done" /\ thr[t].arg = n) =>
                   /\ inner[n] = 1
                   /\ first[n] # None
                   /\ thr[t].res = first[n][1]
                   /\ cells[n].state = "init"

\* two callers raced, one blocked on the other; the variable was "foo" when the
\* initialiser read it and is "bar" now; both hold "foo"
C5_Witness ==
    /\ \A t \in Threads : thr[t].pc = "done" /\ thr[t].res = Ok(StrV(T_foo))
    /\ \E t \in Threads : thr[t].waited
    /\ \E n \in VarsOf : env[n] = Text(T_bar)

\* C6 as stated: a base reader returns NotPresent when the variable is unset and
\* exactly the variable's text when it is set.
C6_SetGivesText ==
    (last.op = "try_read_var" /\ LastLayers = << >>) =>
        /\ env[LastVar].kind = "unset" => last.out.res = Err(NotPresent)
        /\ env[LastVar].kind # "unset" =>
               last.out.res.ok /\ last.out.res.val = StrV(env[LastVar].text)

\* C6, amended: a base reader returns NotPresent when the variable is unset,
\* exactly the variable's text when it is set to valid Unicode, and the
\* NotUnicode error carrying the value when it is set to anything else.
C6_BaseReader ==
    (last.op = "try_read_var" /\ LastLayers = << >>) =>
        /\ env[LastVar].kind = "unset" => last.out.res = Err(NotPresent)
        /\ env[LastVar].kind = "text" => last.out.res = Ok(StrV(env[LastVar].text))
        /\ env[LastVar].kind = "raw" => last.out.res = Err(NotUnicode(env[LastVar].raw))

\* a value that is not Unicode refused, then "foo" returned as it is
C6_Witness ==
    /\ last.op = "try_read_var" /\ LastLayers = << >>
    /\ prev.op = "try_read_var" /\ prev.res = Err(NotUnicode(1))
    /\ env[LastVar] = Text(T_foo)
    /\ last.out.res = Ok(StrV(T_foo))

\* C7: a reader without a Cache layer holds no state between calls: each read
\* looks the variable up and reflects the environment at that time, so a base
\* reader returns the new value after a change and NotPresent after a removal,
\* and two reads with no change in between return the same result.
C7_UncachedReflectsEnvironment ==
    (last.op = "try_read_var" /\ ~IsCached(LastLeaf)) =>
        /\ InTrace(last.out, "env::var")
        /\ cells[last.arg] = EmptyCell
        /\ (LastLayers = << >> /\ env[LastVar].kind = "text")
               => last.out.res = Ok(StrV(env[LastVar].text))
        /\ (LastLayers = << >> /\ env[LastVar].kind = "unset")
               => last.out.res = Err(NotPresent)
        /\ (prev.op = "try_read_var" /\ prev.arg = last.arg /\ ~last.changed)
               => last.out.res = prev.res

\* read "foo", the variable changed, read "bar"
C7_Witness ==
    /\ last.op = "try_read_var" /\ LastLayers = << >>
    /\ prev.op = "try_read_var" /\ prev.res = Ok(StrV(T_foo))
    /\ last.changed
    /\ last.out.res = Ok(StrV(T_bar))

\* C8: an OrDefault reader never returns an error: when the inner read
\* succeeds it returns the inner value unchanged, and when the variable is
\* unset it returns the value of the fallback function.
C8_DefaultNeverFails ==
    ReadOf("or_default") =>
        /\ last.out.res.ok
        /\ InnerNow.res.ok => last.out.res = InnerNow.res
        /\ (Len(LastLayers) = 1 /\ env[LastVar].kind = "text")
               => last.out.res = Ok(StrV(env[LastVar].text))
        /\ env[LastVar].kind = "unset" => last.out.res = Ok(LastTop.dflt)

\* "hi" read as it is, then the variable removed and "hello" returned in its place
C8_Witness ==
    /\ ReadOf("or_default")
    /\ prev.op = "try_read_var" /\ prev.res = Ok(StrV(T_hi))
    /\ env[LastVar] = Unset
    /\ last.out.res = Ok(StrV(T_hello))
    /\ InTrace(last.out, "default_fn")

\* the text the Parsed layer under the top layer was given, if it was given one
ParsedInput == TryGet(LastVar, LastLayers, Len(LastLayers) - 2, env, fs)
WithoutVar == [env EXCEPT ![LastVar] = Unset]

\* C9: when the variable is set but an inner Parsed layer fails to convert it,
\* the OrDefault layer above returns the fallback value, exactly as for an
\* unset variable, and surfaces no error.
C9_DefaultHidesParseFailure ==
    (/\ ReadOf("or_default")
     /\ Len(LastLayers) >= 2
     /\ LastLayers[Len(LastLayers) - 1].kind = "parsed"
     /\ ParsedInput.res.ok
     /\ ~ParseI32(ParsedInput.res.val.s).ok)
        => /\ last.out.res = Ok(LastTop.dflt)
           /\ last.out.res = TryGet(LastVar, LastLayers, Len(LastLayers), WithoutVar, fs).res

\* "foobar" is present, the conversion ran and failed, and 0 came out
C9_Witness ==
    /\ ReadOf("or_default")
    /\ env[LastVar] = Text(T_foobar)
    /\ InTrace(last.out, "parse_fn")
    /\ InTrace(last.out, "default_fn")
    /\ last.out.res = Ok(IntV(0))

\* what <i32 as FromStr> makes of the texts of the tests
ExpectI32(t) ==
    CASE t = T_30 -> Ok(IntV(30))
      [] t = T_3 -> Ok(IntV(3))
      [] t = T_m3 -> Ok(IntV(-3))
      [] t = T_empty -> Err(ParseError("Empty"))
      [] t = T_big -> Err(ParseError("PosOverflow"))
      [] OTHER -> Err(ParseError("InvalidDigit"))

\* C10: Parsed layer: when the inner read fails the inner error is returned
\* unchanged and the conversion is not applied; when the conversion fails the
\* result is a parse error wrapping the conversion's error, which is not the
\* error of an absent variable; when it succeeds the converted value is
\* returned ("30" gives 30, "foobar" a parse error caused by an invalid digit).
C10_ParsedLayer ==
    ReadOf("parsed") =>
        /\ ~InnerNow.res.ok =>
               /\ last.out = InnerNow
               /\ ~InTrace(last.out, "parse_fn")
        /\ env[LastVar].kind = "unset" => last.out.res = Err(NotPresent)
        /\ InnerNow.res.ok =>
               /\ last.out.res = ExpectI32(InnerNow.res.val.s)
               /\ InTrace(last.out, "parse_fn")
               /\ ~last.out.res.ok =>
                      /\ last.out.res.err.variant = "Other"
                      /\ last.out.res.err.kind = "ParseError"
                      /\ last.out.res.err.cause # ""

\* "30" read as 30, then "foobar" refused with an invalid-digit parse error
C10_Witness ==
    /\ ReadOf("parsed")
    /\ prev.op = "try_read_var" /\ prev.res = Ok(IntV(30))
    /\ env[LastVar] = Text(T_foobar)
    /\ last.out.res = Err(ParseError("InvalidDigit"))

\* the file at the path a variable holds, as std::fs sees it
FileAt(path) == IF path \in DOMAIN fs THEN fs[path] ELSE Absent

\* C11: FileRead reader: when the variable holds the path of an existing
\* readable file the read returns that file's full content; when it holds the
\* path of a nonexistent file the read fails with an I/O error of kind
\* not-found; when the inner read fails (variable unset) the inner error is
\* propagated.
C11_FileRead ==
    (ReadOf("file_read") /\ Len(LastLayers) = 1) =>
        /\ (env[LastVar].kind = "text" /\ FileAt(env[LastVar].text).kind = "file")
               => last.out.res = Ok(StrV(FileAt(env[LastVar].text).text))
        /\ (env[LastVar].kind = "text" /\ FileAt(env[LastVar].text).kind = "absent")
               => last.out.res = Err(IoError("NotFound"))
        /\ env[LastVar].kind = "unset" =>
               /\ last.out.res = Err(NotPresent)
               /\ ~InTrace(last.out, "fs::read_to_string")
        /\ ~InnerNow.res.ok => last.out = InnerNow

\* a path to no file refused as not found, then the file holding "hello" read
C11_Witness ==
    /\ ReadOf("file_read") /\ Len(LastLayers) = 1
    /\ prev.op = "try_read_var" /\ prev.res = Err(IoError("NotFound"))
    /\ env[LastVar] = Text(T_path)
    /\ fs[T_path] = File(T_hello)
    /\ last.out.res = Ok(StrV(T_hello))

\* C13: layers compose left to right: a reader built as FileRead followed by
\* Parsed reads the path from the variable, then the file's content, then
\* converts that content, so a file containing "3" parsed as an integer yields
\* 3, and a readable file whose content is not convertible yields a parse
\* error, not an I/O error.
C13_FileThenParse ==
    (/\ ReadOf("parsed")
     /\ Len(LastLayers) = 2
     /\ LastLayers[1].kind = "file_read"
     /\ env[LastVar].kind = "text"
     /\ FileAt(env[LastVar].text).kind = "file")
        => /\ last.out.trace = <<"env::var", "fs::read_to_string", "parse_fn">>
           /\ last.out.res = ExpectI32(FileAt(env[LastVar].text).text)
           /\ FileAt(env[LastVar].text).text = T_3 => last.out.res = Ok(IntV(3))
           /\ FileAt(env[LastVar].text).text = T_foobar =>
                  /\ last.out.res.err.kind = "ParseError"
                  /\ last.out.res.err.kind # "IoError"

\* the file held "3" and 3 was read; it holds "foobar" now and the read is
\* refused with a parse error
C13_Witness ==
    /\ ReadOf("parsed") /\ Len(LastLayers) = 2 /\ LastLayers[1].kind = "file_read"
    /\ prev.op = "try_read_var" /\ prev.res = Ok(IntV(3))
    /\ fs[T_path] = File(T_foobar)
    /\ last.out.res = Err(ParseError("InvalidDigit"))

\* what an error value holds
ErrorParts(err) == {err.variant, err.kind, err.cause}
IoCause(file) ==
    CASE file.kind = "absent" -> "NotFound"
      [] file.kind = "denied" -> "PermissionDenied"
      [] file.kind = "binary" -> "InvalidData"
      [] OTHER -> ""
FileReadFailed ==
    /\ ReadOf("file_read")
    /\ InnerNow.res.ok
    /\ FileAt(InnerNow.res.val.s).kind # "file"

C14_ParseThenFile ==
    (/\ ReadOf("file_read")
     /\ Len(LastLayers) = 2
     /\ LastLayers[1].kind = "parsed")
        => /\ (env[LastVar] = Text(T_booga_path) /\ fs[T_path].kind = "file")
                  => last.out.res = Ok(StrV(fs[T_path].text))
           /\ (env[LastVar] = Text(T_booga_path) /\ fs[T_path].kind = "absent")
                  => last.out.res = Err(IoError("NotFound"))
           /\ env[LastVar] = Text(T_unexpected) =>
                  /\ last.out.res = Err(ParseError("this is bad"))
                  /\ last.out.trace = <<"env::var", "parse_fn">>

\* "booga:./f" led to the file holding "hello"; "im not expected" is refused by
\* the conversion and no file is opened
C14_Witness ==
    /\ ReadOf("file_read") /\ Len(LastLayers) = 2 /\ LastLayers[1].kind = "parsed"
    /\ prev.op = "try_read_var" /\ prev.res = Ok(StrV(T_hello))
    /\ env[LastVar] = Text(T_unexpected)
    /\ fs[T_path] = File(T_hello)
    /\ last.out.res.err.cause = "this is bad"
    /\ ~InTrace(last.out, "fs::read_to_string")

\* the variable names of the results of the last execution, in order
ResultVars == [i \in 1..Len(last.results) |-> last.results[i].config.var_name]
\* the whole configurations, by their place among Configs
BarConfig == Len(ReaderConfigs) + 1
TestConfig == BarConfig + 1
AppConfig == TestConfig + 1
MidConfig == AppConfig + 1
MyConfig == MidConfig + 1
MyConfigHi == MyConfig + 1

\* C15: the result sequence of an execution lists one entry per leaf field in
\* declaration order, the entries of a nested configuration spliced in at the
\* position of the embedding field in the nested struct's own declaration
\* order: a parent with nested [A, B] declared first and own fields [C, D]
\* yields [A, B, C, D], and a configuration without nesting yields its fields
\* exactly as declared.
C15_Flattening ==
    last.op \in ExecOps =>
        /\ cfg = BarConfig =>
               /\ ResultVars = <<"VAR_A", "VAR_B", "VAR_C", "VAR_D">>
               /\ last.calls = <<"foo.var_a", "foo.var_b", "var_c", "var_d">>
        /\ cfg = TestConfig => ResultVars = <<"VAR_A", "VAR_B", "VAR_C">>
        /\ cfg = AppConfig => ResultVars = <<"USER", "PWD">>
        /\ cfg = MidConfig =>
               /\ ResultVars = <<"VAR_A", "VAR_B", "VAR_C">>
               /\ last.calls = <<"var_a", "mid.var_b", "var_c">>
        /\ \A i \in 1..Len(last.results) : last.results[i].config = Fields[i].descriptor

\* Bar { foo: { Foo }, var_c, var_d } executed
C15_Witness ==
    /\ last.op = "init_raw"
    /\ Configs[cfg].fields[1].kind = "nested"
    /\ ResultVars = <<"VAR_A", "VAR_B", "VAR_C", "VAR_D">>

\* the fields that failed and the fields that succeeded in the last execution,
\* each in declaration order
FailedSeq == SelectSeq([i \in 1..Len(last.outs) |-> i], LAMBDA i : ~last.outs[i].res.ok)
SucceededSeq == SelectSeq([i \in 1..Len(last.outs) |-> i], LAMBDA i : last.outs[i].res.ok)
NameLine(i) == "- " \o Tick \o Fields[i].descriptor.var_name \o Tick
CatalogueLine(i) == "- " \o DescriptorDisplay(Fields[i].descriptor)
\* where the catalogue header stands in the report
HeaderAt == Len(FailedSeq) + Len(SucceededSeq) + 3
CatalogueOf(report) == SubSeq(report, HeaderAt + 1, Len(report))

C17_CatalogueInDeclarationOrder ==
    (last.op \in {"try_init", "init"} /\ ~last.ok) =>
        CatalogueOf(last.report) = [i \in 1..Len(Fields) |-> CatalogueLine(i)]

Noun(n) == IF n > 1 THEN "variables" ELSE "variable"

\* C18: in the rendered report the noun after each count is "variables"
\* exactly when that count is greater than 1 and "variable" otherwise,
\* including for a count of 0: zero incorrect plus one correct renders "Got 1
\* valid variable" and "Got 0 incorrect variable"; two incorrect renders "Got 2
\* incorrect variables".
C18_Plural ==
    last.op \in ExecOps =>
        /\ last.report[1] =
               "Got " \o ToString(Len(FailedSeq)) \o " incorrect " \o Noun(Len(FailedSeq))
        /\ last.report[Len(FailedSeq) + 2] =
               "Got " \o ToString(Len(SucceededSeq)) \o " valid " \o Noun(Len(SucceededSeq))
        /\ (Len(FailedSeq) = 0 /\ Len(SucceededSeq) = 1) =>
               /\ last.report[1] = "Got 0 incorrect variable"
               /\ last.report[2] = "Got 1 valid variable"
        /\ Len(FailedSeq) = 2 => last.report[1] = "Got 2 incorrect variables"

\* one field, read successfully
C18_Witness ==
    /\ last.op \in ExecOps
    /\ Len(Fields) = 1
    /\ last.report[1] = "Got 0 incorrect variable"
    /\ last.report[2] = "Got 1 valid variable"

\* C19: a descriptor renders as `NAME`, followed by ": description" exactly
\* when a description is set, followed by " (default: label)" exactly when a
\* default label is set; each optional part is omitted when absent (MY_URL with
\* description "Some URL" renders "`MY_URL`: Some URL", and with default label
\* "hi" as well "`MY_URL`: Some URL (default: hi)").
C19_DescriptorDisplay ==
    last.op \in ExecOps =>
        /\ cfg = MyConfig => CatalogueOf(last.report) = <<"- 'MY_URL': Some URL">>
        /\ cfg = MyConfigHi =>
               CatalogueOf(last.report) = <<"- 'MY_URL': Some URL (default: hi)">>
        /\ cfg = AppConfig => Range(CatalogueOf(last.report)) = {"- 'USER'", "- 'PWD'"}
        /\ cfg = TestConfig =>
               Range(CatalogueOf(last.report)) = {"- 'VAR_A'", "- 'VAR_B'", "- 'VAR_C': hello"}
        /\ cfg = MidConfig =>
               Range(CatalogueOf(last.report)) =
                   {"- 'VAR_A'", "- 'VAR_B'", "- 'VAR_C' (default: hello)"}

\* the field of MyConfig with the default label "hi"
C19_Witness ==
    /\ last.op \in ExecOps
    /\ Fields[1].descriptor.default_val_fmt = Some("hi")
    /\ Fields[1].descriptor.description = Some("Some URL")
    /\ last.report[Len(last.report)] = "- 'MY_URL': Some URL (default: hi)"

\* C20: init panics exactly when try_init of the same execution returns an
\* error (at least one field failed to read), with the formatted multi-field
\* report as the panic message, and returns normally when every field reads
\* successfully.
C20_InitPanicsIffTryInitFails ==
    last.op = "init" =>
        /\ last.panicked <=> Failed(last.outs) # {}
        /\ last.panicked <=> ~TryInitResult(last.results).ok
        /\ last.panicked =>
               /\ last.message # None
               /\ last.message[1] =
                      <<"Error during configuration initialization:">> \o last.report
        /\ ~last.panicked => last.message = None

\* an init that returned, then one field lost its variable and init panicked
C20_Witness ==
    /\ last.op = "init"
    /\ prev.op = "init" /\ prev.ok
    /\ last.panicked
    /\ Succeeded(last.outs) # {}
    /\ Len(last.message[1]) = 4 + 2 * Len(Fields)

\* what a take just returned, seen as a read would return it
TakenView(r) == IF r.taken = None THEN None ELSE Some(CachedView(r.taken[1]))

\* C21: Cached::take returns None when the reader has not been read since its
\* construction or since the last take; otherwise it returns the stored first
\* result (success or failure) and resets the cell to uninitialized, so that
\* the next read performs the inner read again and stores the outcome it
\* obtains from the current environment.
C21_Take ==
    /\ [][last'.op = "take" =>
              /\ TakenView(last') = first[last'.arg]
              /\ cells'[last'.arg] = EmptyCell]_vars
    /\ [](last.op = "take" => cells[last.arg] = EmptyCell /\ first[last.arg] = None)
    /\ []((ReadOf("cached") /\ prev.op = "take" /\ prev.arg = last.arg) =>
              /\ InTrace(last.out, "env::var")
              /\ last.out.res = CachedView(InnerNow.res)
              /\ cells[last.arg] = FullCell(InnerNow.res))

\* "foo" was stored and taken; the variable is "bar" and the read after the
\* take returned "bar"
C21_Witness ==
    /\ ReadOf("cached")
    /\ prev.op = "take" /\ prev.taken = Some(Ok(StrV(T_foo)))
    /\ last.out.res = Ok(StrV(T_bar))

\* the place of a field in the declaration
IndexOf(n) == CHOOSE i \in 1..Len(Fields) : Fields[i].name = n

\* C22: an aggregate execution (init_raw, try_init or init) counts as the first
\* read of every field that uses a Cached layer and was not read before: after
\* it, every single-field read of such a field returns the result obtained
\* during that execution, even if the environment changed in the meantime.
C22_ExecutionIsFirstRead ==
    /\ [][last'.op \in ExecOps =>
              \A n \in FieldNames :
                  (IsCached(FieldOf(n)) /\ first[n] = None) =>
                      /\ InTrace(last'.outs[IndexOf(n)], "env::var")
                      /\ first'[n] = Some(last'.outs[IndexOf(n)].res)
                      /\ cells'[n].state = "init"]_vars
    /\ [](last.op \in ExecOps =>
              \A n \in FieldNames : IsCached(FieldOf(n)) => first[n] # None)
    /\ []((ReadOf("cached") /\ first[last.arg] # None) =>
              /\ last.out.res = first[last.arg][1]
              /\ inner[last.arg] = 1
              /\ prev.op \in ExecOps => last.out.trace = << >>)

\* "foobar" was refused during the execution; the variable is "3" now and the
\* read of the field still reports the parse error, without a lookup
C22_Witness ==
    /\ ReadOf("cached")
    /\ prev.op \in ExecOps
    /\ last.changed
    /\ env[LastVar] = Text(T_3)
    /\ last.out.res.err.kind = "ParseError"
    /\ last.out.trace = << >>

CachedErrorRead == last.op = "try_read_var" /\ last.equals # << >>

\* C23 as stated: two cached errors whose wrapped errors are of the same kind
\* compare equal regardless of payload (for every pair of wrapped errors of
\* the same variant, including two environment-lookup errors with different
\* payloads and two parse/other errors with different causes), and cached
\* errors of different kinds compare unequal.
C23_EqualByKind ==
    CachedErrorRead =>
        \A i \in 1..Len(SomeErrors) :
            last.equals[i] <=> last.out.res.err.variant = SomeErrors[i].variant

\* C23, amended: two cached errors compare as the errors they wrap: two Other
\* errors (parse, I/O) are equal whatever their causes, two Var errors are
\* equal exactly when their VarErrors are equal (NotPresent with NotPresent,
\* NotUnicode with NotUnicode of the same value), and a Var error and an Other
\* error are unequal.
C23_CachedErrorEq ==
    CachedErrorRead =>
        \A i \in 1..Len(SomeErrors) :
            last.equals[i] <=>
                \/ /\ last.out.res.err.variant = "Other"
                   /\ SomeErrors[i].variant = "Other"
                \/ /\ last.out.res.err.variant = "Var"
                   /\ SomeErrors[i].variant = "Var"
                   /\ last.out.res.err.kind = SomeErrors[i].kind
                   /\ last.out.res.err.raw = SomeErrors[i].raw

\* the cached error of a variable that is not Unicode: equal to the same error,
\* unequal to NotPresent and to NotUnicode of another value
C23_Witness ==
    /\ CachedErrorRead
    /\ last.out.res.err.kind = "NotUnicode"
    /\ last.equals = <<FALSE, TRUE, FALSE, FALSE, FALSE, FALSE>>

\* C24: no operation of the library (a read on any stack of layers,
\* Cached::take, init_raw, try_init, init) modifies the process environment or
\* the file system: the environment variables and the files' contents are the
\* same after the operation as before, whether it succeeds or fails.
C24_NoWrites == [][last'.op \in LibOps => (env' = env /\ fs' = fs)]_vars

\* a try_init that failed on a file that does not hold a number; the variable
\* and the file are still there
C24_Witness ==
    /\ last.op = "try_init" /\ ~last.ok
    /\ \E n \in VarsOf : env[n] = Text(T_path)
    /\ fs[T_path] = File(T_foobar)

NoCache == \A i \in 1..Len(Fields) : ~IsCached(Fields[i])
AllPlain == \A i \in 1..Len(Fields) : Fields[i].layers = << >>

\* C25: the aggregate executor keeps no state across calls: for a configuration
\* without Cached layers the outcome of try_init depends only on the
\* environment and files at the time of the call, so a try_init that failed
\* because a variable was unset succeeds when called again after the variable
\* is set, and one that succeeded fails when called again after the variable
\* is removed.
C25_ExecutorStateless ==
    (last.op = "try_init" /\ NoCache) =>
        /\ \A i \in 1..Len(Fields) :
               last.outs[i] = TryGet(Fields[i].descriptor.var_name, Fields[i].layers,
                                     Len(Fields[i].layers), env, fs)
        /\ AllPlain =>
               (last.ok <=> \A i \in 1..Len(Fields) :
                                env[Fields[i].descriptor.var_name].kind = "text")
        /\ \A n \in FieldNames : cells[n] = EmptyCell
        /\ (prev.op = "try_init" /\ ~last.changed) => last.ok = prev.ok

\* a try_init that failed, a variable set, a try_init that succeeded
C25_Witness ==
    /\ last.op = "try_init" /\ NoCache
    /\ prev.op = "try_init" /\ ~prev.ok
    /\ last.changed
    /\ last.ok

DefaultOnTop(leaf) ==
    Len(leaf.layers) > 0 /\ leaf.layers[Len(leaf.layers)].kind = "or_default"

\* C26: a field whose outermost layer is OrDefault never appears among the
\* incorrect entries of any aggregate execution, for every state of the
\* environment and file system (unset, malformed, unreadable file); a
\* configuration made only of such fields always passes try_init.
C26_DefaultedFieldsNeverFail ==
    last.op \in ExecOps =>
        /\ \A i \in 1..Len(Fields) :
               DefaultOnTop(Fields[i]) =>
                   /\ last.results[i].error = None
                   /\ \A k \in 1..Len(fmt_exec_results(last.results).incorrect_vars) :
                          fmt_exec_results(last.results).incorrect_vars[k].config
                              # Fields[i].descriptor
        /\ (\A i \in 1..Len(Fields) : DefaultOnTop(Fields[i])) =>
               /\ last.ok
               /\ ~last.panicked
               /\ last.report[1] = "Got 0 incorrect variable"

\* the variable names a file the process may not read, and try_init passes
C26_Witness ==
    /\ last.op = "try_init" /\ last.ok
    /\ DefaultOnTop(Fields[1])
    /\ env[Fields[1].descriptor.var_name] = Text(T_path)
    /\ fs[T_path] = Denied

\* no operation of the library has run since the construction
NeverUsed == prev.op = "define" /\ last.op \notin LibOps
\* the last operation is the first one of the library since the construction
FirstUse == prev.op = "define" /\ last.op \in LibOps

\* C27: constructing a configuration or a reader performs no environment or
\* file read: a non-cached reader returns the value present when it is read,
\* not when it was constructed, and a Cached reader's cell stays empty (take
\* returns None) until its first read.
C27_ConstructionReadsNothing ==
    /\ NeverUsed => \A n \in FieldNames :
           cells[n] = EmptyCell /\ first[n] = None /\ inner[n] = 0
    /\ (FirstUse /\ last.op = "take") => last.taken = None /\ cells[last.arg] = EmptyCell
    /\ (FirstUse /\ ReadOf("cached")) =>
           /\ InTrace(last.out, "env::var")
           /\ last.out.res = CachedView(InnerNow.res)
           /\ inner[last.arg] = 1
    /\ (FirstUse /\ last.op = "try_read_var" /\ ~IsCached(LastLeaf)) =>
           last.out = TryGet(LastVar, LastLayers, Len(LastLayers), env, fs)

\* the variable was set after the construction, and the first read of the
\* Cached reader returns it
C27_Witness ==
    /\ FirstUse /\ ReadOf("cached")
    /\ last.changed
    /\ env[LastVar] = Text(T_foo)
    /\ last.out.res = Ok(StrV(T_foo))

\* the places of the results with and without an error, in the input's order
WithError(results) ==
    SelectSeq([i \in 1..Len(results) |-> i], LAMBDA i : results[i].error # None)
WithoutError(results) ==
    SelectSeq([i \in 1..Len(results) |-> i], LAMBDA i : results[i].error = None)
Partition == fmt_exec_results(last.results)

\* C28: fmt_exec_results partitions its input: a result is incorrect exactly
\* when it carries an error and correct otherwise, the two lists together have
\* as many entries as the input, no descriptor is in both, and each list keeps
\* the order its entries had in the input.
C28_Partition ==
    last.op \in ExecOps =>
        /\ Len(Partition.correct_vars) + Len(Partition.incorrect_vars) = Len(last.results)
        /\ Partition.incorrect_vars =
               [k \in 1..Len(WithError(last.results)) |->
                   [config |-> last.results[WithError(last.results)[k]].config,
                    error |-> last.results[WithError(last.results)[k]].error[1]]]
        /\ Partition.correct_vars =
               [k \in 1..Len(WithoutError(last.results)) |->
                   last.results[WithoutError(last.results)[k]].config]
        /\ \A i \in 1..Len(Partition.incorrect_vars), j \in 1..Len(Partition.correct_vars) :
               Partition.incorrect_vars[i].config # Partition.correct_vars[j]

\* Bar with VAR_A and VAR_C unset, VAR_B and VAR_D set: two failed results
\* with a succeeded one between them
C28_Witness ==
    /\ last.op \in ExecOps /\ cfg = BarConfig
    /\ WithError(last.results) = <<1, 3>>
    /\ WithoutError(last.results) = <<2, 4>>
    /\ Partition.incorrect_vars[1].config.var_name = "VAR_A"
    /\ Partition.incorrect_vars[2].config.var_name = "VAR_C"

\* C29: within one aggregate execution the readers are attempted in the order
\* of the fields' declaration, a nested configuration's fields at the place of
\* the embedding field, and every read is done before exec_raw/init_raw
\* returns: consuming the returned results reads nothing, so a change of the
\* environment between the return and the consumption does not affect them.
C29_ReadsBeforeReturn ==
    /\ [](last.op \in ExecOps =>
              /\ last.calls = [i \in 1..Len(Fields) |-> Fields[i].name]
              /\ Len(last.outs) = Len(Fields)
              /\ \A i \in 1..Len(Fields) :
                     (~IsCached(Fields[i])) =>
                         last.outs[i] = TryGet(Fields[i].descriptor.var_name,
                                               Fields[i].layers, Len(Fields[i].layers),
                                               env, fs))
    /\ [](last.op = "collect" =>
              /\ prev.op = "init_raw"
              /\ last.results = prev.results
              /\ last.calls = << >> /\ last.outs = << >>)
    /\ [][last'.op = "collect" => (cells' = cells /\ inner' = inner /\ first' = first)]_vars

\* a variable was unset when init_raw ran and set before the results were
\* consumed; its result still carries the lookup error
C29_Witness ==
    /\ last.op = "collect" /\ last.changed
    /\ \E i \in 1..Len(Fields) :
           /\ Fields[i].layers = << >>
           /\ env[Fields[i].descriptor.var_name].kind = "text"
           /\ last.results[i].error = Some(NotPresent)

VarDescriptor(var, desc, dflt) ==
    [var_name |-> var, description |-> desc, default_val_fmt |-> dflt]

\* C30: every layer reports the descriptor of the base reader it wraps,
\* directly or through other layers: whatever the stack of Cached, FileRead,
\* Parsed and OrDefault layers, the descriptor of a field's result, and so the
\* line of the field in the report, is the base reader's; description and
\* default_fmt_val change only the part they set and leave the variable's name
\* and the other part as they were.
C30_BaseDescriptor ==
    last.op \in ExecOps =>
        /\ \A i \in 1..Len(Fields) :
               /\ last.results[i].config = Fields[i].descriptor
               /\ \A k \in 1..Len(Fields[i].layers) :
                      GetDescriptor(Fields[i], k) = Fields[i].descriptor
               /\ \E k \in 1..Len(last.report) : last.report[k] = CatalogueLine(i)
               /\ description(Fields[i].descriptor, "x") =
                      VarDescriptor(Fields[i].descriptor.var_name, Some("x"),
                                    Fields[i].descriptor.default_val_fmt)
               /\ default_fmt_val(Fields[i].descriptor, "y") =
                      VarDescriptor(Fields[i].descriptor.var_name,
                                    Fields[i].descriptor.description, Some("y"))
        /\ cfg = TestConfig =>
               last.results[3].config = VarDescriptor("VAR_C", Some("hello"), None)
        /\ cfg = MidConfig =>
               /\ last.results[1].config = VarDescriptor("VAR_A", None, None)
               /\ last.results[2].config = VarDescriptor("VAR_B", None, None)
               /\ last.results[3].config = VarDescriptor("VAR_C", None, Some("hello"))
        /\ cfg = MyConfig =>
               last.results[1].config = VarDescriptor("MY_URL", Some("Some URL"), None)
        /\ cfg = MyConfigHi =>
               last.results[1].config = VarDescriptor("MY_URL", Some("Some URL"), Some("hi"))

\* TestConfig's var_c, read through Parsed, OrDefault and Cached, described as
\* its TextVar is
C30_Witness ==
    /\ last.op = "try_init" /\ cfg = TestConfig
    /\ Len(Fields[3].layers) = 3 /\ IsCached(Fields[3])
    /\ last.results[3].config.description = Some("hello")
    /\ \E k \in 1..Len(last.report) : last.report[k] = "- 'VAR_C': hello"

====
